---- MODULE Spec2Model ----
(***************************************************************************)
(* Model of the adaptive PDF compression engine of src/services/           *)
(* pdfService.ts: the config resolvers, the content classifier, the        *)
(* multi-pass orchestrator compressPDFAdaptive, its single-pass legacy     *)
(* version, and compressPDFSmart with the object-level recompressor and    *)
(* the visual reconstruction engine.                                       *)
(*                                                                         *)
(* Numbers.  scale and quality are JavaScript doubles with at most four    *)
(* decimals in every computation of the engine; they are kept here as      *)
(* integers in units of 1/10000 (scale 0.85 is 8500).  Byte sizes, pixel   *)
(* dimensions, DPI values and progress percentages are plain integers.     *)
(* Where the code rounds a double (Math.round, toFixed) the rounding error *)
(* of the double decides the ties; it is computed here with integers.      *)
(***************************************************************************)
EXTENDS Integers, Sequences, FiniteSets, TLC

\* one unit of scale or quality: 1.0
U == 100 * 100

\* ------------------------------------------------------------------------
\* Bounds of the model
\* ------------------------------------------------------------------------
\* largest page count of a document handed to a compress entry point
MaxPages == 2
\* largest byte size of an input file; a produced document has 1..MaxBytes+1 bytes
MaxBytes == 6
\* largest number of indirect objects of a document's object graph
MaxObjects == 2
\* largest payload length of a stream of the object graph
MaxLen == 3
\* largest number of base64 quadruples in the data URL of a sample page
MaxQuads == 2
\* page count of a long document handed to compressPDFSmart
ManyPages == 11
\* largest page count of a document handed to analyzePDF on its own
MaxDocPages == 4

\* ------------------------------------------------------------------------
\* JavaScript arithmetic
\* ------------------------------------------------------------------------
\* Math.round(n / d) for n >= 0, d > 0: the nearest integer, a tie rounds up
MathRound(n, d) == (2 * n + d) \div (2 * d)

\* Math.round(scale * 72) for a scale in units of 1/10000
RoundDPI(scale) == MathRound(scale * 72, U)

\* floor(log2(i / n)) for i, n > 0: the binary exponent of the double i / n
RECURSIVE Log2Floor(_, _)
Log2Floor(i, n) ==
    IF i >= 2 * n THEN 1 + Log2Floor(i, 2 * n)
    ELSE IF i < n THEN Log2Floor(2 * i, n) - 1
    ELSE 0

\* (i * 2^s) mod n
RECURSIVE ShiftMod(_, _, _)
ShiftMod(i, n, s) ==
    IF s = 0 THEN i % n ELSE (2 * ShiftMod(i, n, s - 1)) % n

\* The rounding error of the double i / n (for a literal such as 0.7: of the
\* double nearest to 7000 / 10000), i, n > 0.  With e = Log2Floor(i, n) the
\* double is m / 2^(52 - e), m the integer nearest to i * 2^(52 - e) / n (the
\* even one at a tie), and DoubleError(i, n) = m * n - i * 2^(52 - e): the
\* double minus i / n, in units of 1 / (n * 2^(52 - e)).
DoubleError(i, n) ==
    LET r2 == ShiftMod(i, 2 * n, 52 - Log2Floor(i, n))
        r == r2 % n
    IN IF r = 0 THEN 0
       ELSE IF 2 * r < n THEN 0 - r
       ELSE IF 2 * r > n THEN n - r
       ELSE IF r2 < n THEN 0 - r
       ELSE n - r

\* Math.round((i / n) * w) in doubles, i, n, w > 0 (also Math.round(w * c) for
\* the double c nearest to i / n).  Away from a tie the double product rounds
\* as the exact product i * w / n.  When i * w / n is k + 1/2 exactly, the
\* product of the double i / n with w is rounded to a double again: the result
\* is k + 1/2 (and Math.round gives k + 1) unless the double i / n lies below
\* i / n by more than half the spacing of the doubles under k + 1/2.
RoundProduct(i, n, w) ==
    LET k == (i * w) \div n
        tie == (2 * i * w) % n = 0 /\ ((2 * i * w) \div n) % 2 = 1
    IN IF ~tie THEN MathRound(i * w, n)
       ELSE LET d == DoubleError(i, n)
                \* exponent of k + 1/2 minus exponent of i / n
                e == Log2Floor(2 * k + 1, 2) - Log2Floor(i, n)
                half == IF k = 0 THEN 4 ELSE 2
            IN IF d < 0 /\ half * w * (0 - d) > n * 2^e THEN k ELSE k + 1

\* The decimal ties x.xx5 that getInterpolatedConfig reaches, both from
\* below: (0.6 + 1.4 * 0.25) * 0.9 is the double 0.85499999999999998 and
\* (0.6 + 1.4 * 0.75) * 0.9 is the double 1.4849999999999999, so toFixed(2)
\* yields "0.85" and "1.48" there.
TieBelow == {8550, 14850}

\* Number(x.toFixed(2)) on the double that getInterpolatedConfig computed for
\* the decimal x: the only ties are those of TieBelow
InterpolatedToFixed2(x) ==
    IF x \in TieBelow THEN (x \div 100) * 100
    ELSE MathRound(x, 100) * 100

\* Number(x.toFixed(2)) / parseFloat(x.toFixed(2)) for the double nearest to
\* the decimal x (a literal, a value already rounded, or a product that is no
\* tie): x rounded to two decimals (a multiple of 100 in units of 1/10000);
\* toFixed rounds the exact value of the double, so a decimal tie x.xx5 rounds
\* down when the double lies below it (1.005 is 1.00499999999999989) and up
\* otherwise (1.485 is 1.4850000000000001, 0.125 is exact).
ToFixed2(x) ==
    IF x % 100 = 50 /\ DoubleError(x, U) < 0 THEN (x \div 100) * 100
    ELSE MathRound(x, 100) * 100

\* Math.max / Math.min
Max(a, b) == IF a >= b THEN a ELSE b
Min(a, b) == IF a <= b THEN a ELSE b

\* ------------------------------------------------------------------------
\* Config Resolver
\* ------------------------------------------------------------------------
Levels == {"extreme", "recommended", "less"}

\* position of a level on the aggressiveness axis extreme -> recommended -> less
LevelRank(level) ==
    CASE level = "extreme" -> 0
      [] level = "recommended" -> 1
      [] OTHER -> 2

\* getAdaptiveConfig of the multi-pass engine (pdfService.ts 1072-1099)
getAdaptiveConfig(level, isTextHeavy) ==
    LET scale0 == CASE level = "extreme" -> 8000
                    [] level = "recommended" -> 14000
                    [] OTHER -> 20000
        quality0 == CASE level = "extreme" -> 4000
                      [] level = "recommended" -> 6000
                      [] OTHER -> 8000
        scale == IF isTextHeavy THEN (scale0 * 85) \div 100 ELSE scale0
        quality == IF isTextHeavy THEN quality0 - 1000 ELSE quality0
    IN [scale |-> ToFixed2(scale), quality |-> ToFixed2(quality),
        projectedDPI |-> RoundDPI(scale)]

\* mutant of getInterpolatedConfig: text-heavy damping is applied only above
\* the middle of the slider
MutInterpolatedHalfDamping(value, isTextHeavy) ==
    LET scale0 == 6000 + (14000 * value) \div 100
        quality == 3000 + (6000 * value) \div 100
        scale == IF isTextHeavy /\ value > 50 THEN (scale0 * 9) \div 10 ELSE scale0
    IN [scale |-> InterpolatedToFixed2(scale),
        quality |-> InterpolatedToFixed2(quality),
        projectedDPI |-> RoundDPI(scale)]

\* getInterpolatedConfig of the multi-pass engine (pdfService.ts 1104-1128),
\* value in 0..100
getInterpolatedConfig(value, isTextHeavy) ==
    LET minScale == 6000
        maxScale == 20000
        minQuality == 3000
        maxQuality == 9000
        \* minScale + (maxScale - minScale) * (value / 100)
        scale0 == minScale + ((maxScale - minScale) * value) \div 100
        quality == minQuality + ((maxQuality - minQuality) * value) \div 100
        scale == IF isTextHeavy THEN (scale0 * 9) \div 10 ELSE scale0
    IN [scale |-> InterpolatedToFixed2(scale),
        quality |-> InterpolatedToFixed2(quality),
        projectedDPI |-> RoundDPI(scale)]

\* getAdaptiveConfig of the legacy engine (pdfService.ts 601-625)
legacyGetAdaptiveConfig(level, isTextHeavy) ==
    CASE level = "extreme" ->
           [scale |-> IF isTextHeavy THEN 10000 ELSE 6000, quality |-> 5000,
            projectedDPI |-> IF isTextHeavy THEN 72 ELSE 43]
      [] level = "less" ->
           [scale |-> 20000, quality |-> 9000, projectedDPI |-> 144]
      [] OTHER ->
           [scale |-> IF isTextHeavy THEN 15000 ELSE 10000, quality |-> 7000,
            projectedDPI |-> IF isTextHeavy THEN 108 ELSE 72]

\* getInterpolatedConfig of the legacy engine (pdfService.ts 627-643); it
\* neither rounds scale and quality nor looks at isTextHeavy
legacyGetInterpolatedConfig(sliderValue, isTextHeavy) ==
    LET minScale == 5000
        maxScale == 25000
        scale == minScale + (sliderValue * (maxScale - minScale)) \div 100
        quality == 3000 + (sliderValue * 7000) \div 100
    IN [scale |-> scale, quality |-> quality, projectedDPI |-> RoundDPI(scale)]

\* the level-to-config mapping of compressPDFSmart (pdfService.ts 1662-1683)
SmartLevels == Levels \cup {"custom"}

smartConfig(level, preserveText, grayscale) ==
    [scale |-> CASE level = "extreme" -> 5000
                 [] level = "recommended" -> 7000
                 [] level = "less" -> 9000
                 [] OTHER -> 10000,
     quality |-> CASE level = "extreme" -> 4000
                   [] level = "recommended" -> 6000
                   [] level = "less" -> 8000
                   [] OTHER -> 8000,
     grayscale |-> grayscale,
     preserveText |-> preserveText,
     aggressive |-> FALSE]

\* ------------------------------------------------------------------------
\* State
\* ------------------------------------------------------------------------
VARIABLES
    api,          \* the entry point under execution
    pc,           \* its control position
    file,         \* the input File and what the libraries make of its bytes
    args,         \* the arguments of the call
    analysis,     \* the value analyzePDF returned
    cfg,          \* the local variables scale, quality, projectedDPI
    resultBytes,  \* the local variable resultBytes / savedBytes
    strategy,     \* the local variable strategy
    passes,       \* the rendering passes executed so far, in order
    cur,          \* the rendering pass in progress: its builder and loop index
    progress,     \* the values handed to onProgress so far, in order
    objs,         \* the indirect objects of the loaded pdf-lib document
    imagesToCompress, \* compressPDFObjects: the indices of the streams it picked
    result,       \* the value the call returned, or the error it threw
    query,        \* resolver: the input of the latest resolver call
    answer        \* resolver: the config that call returned

vars == <<api, pc, file, args, analysis, cfg, resultBytes, strategy, passes,
          cur, progress, objs, imagesToCompress, result, query, answer>>

compressVars == <<file, args, analysis, cfg, resultBytes, strategy, passes,
                  cur, progress, objs, imagesToCompress, result>>
resolverVars == <<query, answer>>
objectVars == <<objs, imagesToCompress>>

\* values of variables that hold nothing yet
NoConfig == [scale |-> 0, quality |-> 0, projectedDPI |-> 0]
NoAnalysis == [isTextHeavy |-> FALSE, pageCount |-> 0]
NoBytes == [src |-> "none", size |-> 0]
NoPass == [kind |-> "none", scale |-> 0, quality |-> 0, base |-> 0, range |-> 0,
           i |-> 0, pages |-> << >>, size |-> 0]
NoMeta == [originalSize |-> 0, compressedSize |-> 0, effectiveScale |-> 0,
           effectiveQuality |-> 0, iterations |-> 0, strategyUsed |-> "",
           projectedDPI |-> 0]
NoResult == [status |-> "none", data |-> NoBytes, meta |-> NoMeta]
NoQuery == [fn |-> "none", level |-> "less", value |-> 0, isTextHeavy |-> FALSE]
NoFile == [size |-> 0, numPages |-> 0, loads |-> FALSE, pages |-> << >>,
           canvas |-> FALSE, libLoads |-> FALSE, enumerates |-> FALSE,
           libSaves |-> FALSE, objects |-> << >>]
NoArgs == [level |-> "less", ignoreSafety |-> FALSE, custom |-> FALSE,
           customConfig |-> NoConfig, preserveText |-> FALSE, grayscale |-> FALSE]

\* ------------------------------------------------------------------------
\* Content Classifier
\* ------------------------------------------------------------------------
\* what page.getTextContent() does on a page: the number of text items it
\* reports, or readable = FALSE when it throws
PageTexts == {[items |-> 20, readable |-> TRUE],
              [items |-> 21, readable |-> TRUE],
              [items |-> 0, readable |-> FALSE]}

\* textContent.items.length summed over pages 1..m
RECURSIVE SumItems(_, _)
SumItems(pages, m) ==
    IF m = 0 THEN 0 ELSE SumItems(pages, m - 1) + pages[m].items

\* TRUE when analyzePDF leaves its try block through the catch clause
analysisThrows(f) ==
    \/ ~f.loads
    \/ \E i \in 1..Min(f.numPages, 3) : ~f.pages[i].readable

\* mutant of analyzePDF: the catch clause sits inside the page loop, so an unreadable page
\* counts no items and the classification goes on
MutAnalyzePDFCatchInLoop(f) ==
    IF ~f.loads
    THEN [isTextHeavy |-> FALSE, pageCount |-> 0]
    ELSE LET maxPagesToCheck == Min(f.numPages, 3)
             totalTextItems == SumItems(f.pages, maxPagesToCheck)
         IN [isTextHeavy |-> maxPagesToCheck > 0
                             /\ totalTextItems > 20 * maxPagesToCheck,
             pageCount |-> f.numPages]

\* analyzePDF (pdfService.ts 808-832; 43-67 and 1719-1743 are identical)
analyzePDF(f) ==
    IF analysisThrows(f)
    THEN [isTextHeavy |-> FALSE, pageCount |-> 0]
    ELSE LET maxPagesToCheck == Min(f.numPages, 3)
             totalTextItems == SumItems(f.pages, maxPagesToCheck)
         IN \* totalTextItems / maxPagesToCheck > 20; 0 / 0 is NaN, and NaN > 20 is false
            [isTextHeavy |-> maxPagesToCheck > 0
                             /\ totalTextItems > 20 * maxPagesToCheck,
             pageCount |-> f.numPages]

\* ------------------------------------------------------------------------
\* Inputs of the compress entry points
\* ------------------------------------------------------------------------
\* byte sizes of input files
FileSizes == (MaxBytes - 1)..MaxBytes
\* byte sizes newPdf.save() / pdfDoc.save() can produce
SavedSizes == 1..(MaxBytes + 1)

\* documents pdf.js can load, with every page's text behaviour, and whether the
\* browser hands out a 2d canvas context
LoadableFiles ==
    UNION {{[size |-> s, numPages |-> n, loads |-> TRUE, pages |-> p,
             canvas |-> c, libLoads |-> TRUE, enumerates |-> TRUE,
             libSaves |-> TRUE, objects |-> << >>] :
               s \in FileSizes, p \in [1..n -> PageTexts], c \in BOOLEAN} :
           n \in 0..MaxPages}

\* files pdf.js rejects
BrokenFiles ==
    {[size |-> s, numPages |-> 0, loads |-> FALSE, pages |-> << >>,
      canvas |-> TRUE, libLoads |-> FALSE, enumerates |-> FALSE,
      libSaves |-> FALSE, objects |-> << >>] : s \in FileSizes}

\* caller-supplied AdaptiveConfig values; projectedDPI is a field of its own
\* and need not agree with scale; the config the compress dialog hands over
\* with its slider at 46; and a scale, 1.005, whose double lies below the
\* decimal tie of toFixed(2)
CustomConfigs ==
    [scale : {5000, 15000}, quality : {5000}, projectedDPI : {36, 89, 90, 108}]
    \cup {getInterpolatedConfig(46, FALSE)}
    \cup {[scale |-> 10050, quality |-> 5000, projectedDPI |-> 90]}

AdaptiveArgs ==
    {[level |-> l, ignoreSafety |-> ig, custom |-> FALSE, customConfig |-> NoConfig,
      preserveText |-> FALSE, grayscale |-> FALSE] : l \in Levels, ig \in BOOLEAN}
    \cup
    {[level |-> l, ignoreSafety |-> ig, custom |-> TRUE, customConfig |-> c,
      preserveText |-> FALSE, grayscale |-> FALSE] :
        l \in Levels, ig \in BOOLEAN, c \in CustomConfigs}

\* ------------------------------------------------------------------------
\* Values the entry points build
\* ------------------------------------------------------------------------
\* new Uint8Array(arrayBuffer): the bytes of the input file
OriginalBytes(f) == [src |-> "original", size |-> f.size]
\* new Uint8Array(0)
EmptyBytes == [src |-> "empty", size |-> 0]

\* a value handed to onProgress, as the exact fraction num / den
Pct(num, den) == [num |-> num, den |-> den]

\* a rejected promise: the call threw
Threw(why) == [status |-> "threw", data |-> NoBytes,
               meta |-> [NoMeta EXCEPT !.strategyUsed = why]]

\* a fresh PDFDocument.create() builder and the loop state of a rasterizing pass
NewPass(kind, scale, quality, base, range) ==
    [kind |-> kind, scale |-> scale, quality |-> quality, base |-> base,
     range |-> range, i |-> 0, pages |-> << >>, size |-> 0]

\* ------------------------------------------------------------------------
\* Multi-pass compressPDFAdaptive (pdfService.ts 1161-1276)
\* ------------------------------------------------------------------------
\* the DPI floor of the safety check (line 1190, and 1218 / 1235)
SafetyDPI == 90

\* strategy.includes('Pass')
IncludesPass(s) == s \in {"First Pass", "Pass 2 Unsafe (Skipped)"}

\* mutant of FinalResult: the final check is missing
MutFinalResultNoCheck(f, rb, c, strat) ==
    [status |-> "success",
     data |-> rb,
     meta |-> [originalSize |-> f.size,
               compressedSize |-> rb.size,
               effectiveScale |-> ToFixed2(c.scale),
               effectiveQuality |-> ToFixed2(c.quality),
               iterations |-> IF IncludesPass(strat) THEN 1 ELSE 2,
               strategyUsed |-> strat,
               projectedDPI |-> RoundDPI(c.scale)]]

\* mutant of FinalResult: the final check tests > instead of >=
MutFinalResultStrict(f, rb, c, strat) ==
    IF rb.size > f.size
    THEN [status |-> "success",
          data |-> OriginalBytes(f),
          meta |-> [originalSize |-> f.size,
                    compressedSize |-> f.size,
                    effectiveScale |-> 0,
                    effectiveQuality |-> 0,
                    iterations |-> 2,
                    strategyUsed |-> "Aborted (Safety Lock)",
                    projectedDPI |-> RoundDPI(c.scale)]]
    ELSE MutFinalResultNoCheck(f, rb, c, strat)

\* the final check and the two return statements (lines 1245-1275)
FinalResult(f, rb, c, strat) ==
    IF rb.size >= f.size
    THEN [status |-> "success",
          data |-> OriginalBytes(f),
          meta |-> [originalSize |-> f.size,
                    compressedSize |-> f.size,
                    effectiveScale |-> 0,
                    effectiveQuality |-> 0,
                    iterations |-> 2,
                    strategyUsed |-> "Aborted (Safety Lock)",
                    projectedDPI |-> RoundDPI(c.scale)]]
    ELSE [status |-> "success",
          data |-> rb,
          meta |-> [originalSize |-> f.size,
                    compressedSize |-> rb.size,
                    effectiveScale |-> ToFixed2(c.scale),
                    effectiveQuality |-> ToFixed2(c.quality),
                    iterations |-> IF IncludesPass(strat) THEN 1 ELSE 2,
                    strategyUsed |-> strat,
                    projectedDPI |-> RoundDPI(c.scale)]]

\* the 'blocked' return of the safety check (lines 1191-1203)
BlockedResult(f, c) ==
    [status |-> "blocked",
     data |-> EmptyBytes,
     meta |-> [originalSize |-> f.size,
               compressedSize |-> 0,
               effectiveScale |-> c.scale,
               effectiveQuality |-> c.quality,
               iterations |-> 0,
               strategyUsed |-> "Safety Block",
               projectedDPI |-> c.projectedDPI]]

\* the config resolution of lines 1174-1186
resolveConfig(a, an) ==
    IF a.custom THEN a.customConfig
    ELSE getAdaptiveConfig(a.level, an.isTextHeavy)

\* mutant of safetyBlocks: the safety check does not look at ignoreSafety
MutSafetyBlocksAlways(a, c) == c.projectedDPI < SafetyDPI

\* the test of the DPI safety check (line 1190)
safetyBlocks(a, c) == ~a.ignoreSafety /\ c.projectedDPI < SafetyDPI

\* scale * 0.7 (line 1215)
aggressiveScale(scale) == (scale * 7) \div 10

\* mutant of aggressiveQuality: the quality is not floored at 0.3
MutAggressiveQualityNoFloor(quality) == quality - 2000

\* Math.max(0.3, quality - 0.2) (line 1216)
aggressiveQuality(quality) == Max(3000, quality - 2000)

\* mutant of squeezeScale: the squeeze pass renders at scale * 0.9
MutSqueezeScaleNine(scale) == (scale * 9) \div 10

\* the scale of the squeeze pass (line 1234)
squeezeScale(scale) == (scale * 8) \div 10

\* mutant of escalationUnsafe: the escalation pass runs without the DPI check
MutEscalationNeverUnsafe(a, scale) == FALSE

\* the test that skips the escalation pass (line 1218)
escalationUnsafe(a, scale) == ~a.ignoreSafety /\ scale * 72 < SafetyDPI * U

\* the test that admits the squeeze pass (line 1235)
squeezeSafe(a, scale) == a.ignoreSafety \/ scale * 72 >= SafetyDPI * U

AdaptiveInit ==
    /\ api = "adaptive"
    /\ pc = "load"
    /\ file \in LoadableFiles \cup BrokenFiles
    /\ args \in AdaptiveArgs
    /\ analysis = NoAnalysis
    /\ cfg = NoConfig
    /\ resultBytes = NoBytes
    /\ strategy = ""
    /\ passes = << >>
    /\ cur = NoPass
    /\ progress = << >>
    /\ objs = << >>
    /\ imagesToCompress = << >>
    /\ result = NoResult
    /\ query = NoQuery
    /\ answer = NoConfig

\* lines 1168-1171: read the file and load it with pdf.js
AdaptiveLoad ==
    /\ api = "adaptive"
    /\ pc = "load"
    /\ IF file.loads
       THEN /\ pc' = "resolve"
            /\ UNCHANGED result
       ELSE /\ pc' = "done"
            /\ result' = Threw("load")
    /\ UNCHANGED <<api, file, args, analysis, cfg, resultBytes, strategy, passes,
                   cur, progress, objectVars, resolverVars>>

\* lines 1172-1209: classify, resolve the config, run the safety check, and
\* enter pass 1
AdaptiveResolve ==
    /\ api = "adaptive"
    /\ pc = "resolve"
    /\ analysis' = analyzePDF(file)
    /\ cfg' = resolveConfig(args, analysis')
    /\ IF safetyBlocks(args, cfg')
       THEN /\ result' = BlockedResult(file, cfg')
            /\ pc' = "done"
            /\ UNCHANGED cur
       ELSE /\ cur' = NewPass("first", cfg'.scale, cfg'.quality, 0, 50)
            /\ pc' = "pass"
            /\ UNCHANGED result
    /\ UNCHANGED <<api, file, args, resultBytes, strategy, passes, progress, objectVars,
                   resolverVars>>

\* reportProgress(base, range)(i / numPages) of line 1206: the value
\* Math.round(base + (i / numPages) * range) handed to onProgress.  With base
\* 0 the sum is the product; with base 50 and range 50 (the only other call)
\* the sum lies in 50..100, where the doubles are spaced so widely that a
\* product one step next to a tie k + 1/2 adds up to 50 + k + 1/2 exactly, and
\* the double sum rounds as the exact one.
reportProgress(base, range, i, numPages) ==
    IF base = 0 THEN RoundProduct(i, numPages, range)
    ELSE MathRound(base * numPages + i * range, numPages)

\* the head of an iteration of the page loop of performCompressionPass
\* (lines 1142-1144): report progress for page i, then await pdf.getPage(i);
\* the new document does not have the page yet
AdaptivePassProgress ==
    /\ api = "adaptive"
    /\ pc = "pass"
    /\ cur.i < file.numPages
    /\ LET i == cur.i + 1 IN
         \* reportProgress(base, range)(i / numPages)
         progress' = Append(progress,
                            Pct(reportProgress(cur.base, cur.range, i,
                                               file.numPages), 1))
    /\ pc' = "page"
    /\ UNCHANGED <<api, file, args, analysis, cfg, resultBytes, strategy, passes,
                   cur, objectVars, result, resolverVars>>

\* the rest of the iteration (lines 1145-1157), after getPage resolved: throw
\* without a 2d context; else render page i at the pass's scale, encode it at
\* the pass's quality and append it to the new document as a page with the
\* width and height of the source page's viewport at scale box = 1.0
AdaptivePassPage ==
    /\ api = "adaptive"
    /\ pc = "page"
    /\ LET i == cur.i + 1 IN
         IF file.canvas
         THEN /\ cur' = [cur EXCEPT
                           !.i = i,
                           !.pages = Append(@, [src |-> i, scale |-> cur.scale,
                                                quality |-> cur.quality,
                                                box |-> U,
                                                ops |-> <<"render", "encode">>])]
              /\ pc' = "pass"
              /\ UNCHANGED result
         ELSE \* 'Canvas context not available'
              /\ pc' = "done"
              /\ result' = Threw("canvas")
              /\ UNCHANGED cur
    /\ UNCHANGED <<api, file, args, analysis, cfg, resultBytes, strategy, passes,
                   progress, objectVars, resolverVars>>

\* pass 1 ends with newPdf.save() producing r bytes; lines 1209-1243 choose
\* between an escalation pass, a squeeze pass and the final check
AdaptivePass1Save ==
    \E r \in SavedSizes :
        /\ api = "adaptive"
        /\ pc = "pass"
        /\ cur.kind = "first"
        /\ cur.i = file.numPages
        /\ passes' = Append(passes, [cur EXCEPT !.size = r])
        /\ LET rb == [src |-> "pass1", size |-> r] IN
           IF ~args.custom /\ r >= file.size
           THEN IF escalationUnsafe(args, aggressiveScale(cfg.scale))
                THEN /\ strategy' = "Pass 2 Unsafe (Skipped)"
                     /\ resultBytes' = rb
                     /\ result' = FinalResult(file, rb, cfg, strategy')
                     /\ pc' = "done"
                     /\ cur' = NoPass
                ELSE /\ strategy' = "First Pass"
                     /\ resultBytes' = rb
                     /\ cur' = NewPass("escalate", aggressiveScale(cfg.scale),
                                       aggressiveQuality(cfg.quality), 50, 50)
                     /\ UNCHANGED <<pc, result>>
           ELSE IF /\ ~args.custom
                   /\ args.level = "extreme"
                   /\ 5 * r > 4 * file.size
                   /\ squeezeSafe(args, squeezeScale(cfg.scale))
                THEN /\ strategy' = "First Pass"
                     /\ resultBytes' = rb
                     /\ cur' = NewPass("squeeze", squeezeScale(cfg.scale),
                                       cfg.quality, 50, 50)
                     /\ UNCHANGED <<pc, result>>
                ELSE /\ strategy' = "First Pass"
                     /\ resultBytes' = rb
                     /\ result' = FinalResult(file, rb, cfg, strategy')
                     /\ pc' = "done"
                     /\ cur' = NoPass
        /\ UNCHANGED <<api, file, args, analysis, cfg, progress, objectVars, resolverVars>>

\* the second pass ends with newPdf.save() producing r bytes; lines 1222-1230
\* (escalation) or 1237-1241 (squeeze) adopt or drop it, then the final check
AdaptivePass2Save ==
    \E r \in SavedSizes :
        /\ api = "adaptive"
        /\ pc = "pass"
        /\ cur.kind \in {"escalate", "squeeze"}
        /\ cur.i = file.numPages
        /\ passes' = Append(passes, [cur EXCEPT !.size = r])
        /\ IF cur.kind = "escalate"
           THEN IF r < file.size
                THEN /\ resultBytes' = [src |-> "pass2", size |-> r]
                     /\ cfg' = [cfg EXCEPT !.scale = cur.scale,
                                           !.quality = cur.quality]
                     /\ strategy' = "Adaptive Fallback"
                ELSE /\ strategy' = "No Reduction Possible"
                     /\ resultBytes' = OriginalBytes(file)
                     /\ UNCHANGED cfg
           ELSE IF r < resultBytes.size
                THEN /\ resultBytes' = [src |-> "pass2", size |-> r]
                     /\ cfg' = [cfg EXCEPT !.scale = cur.scale]
                     /\ strategy' = "Adaptive Squeeze"
                ELSE UNCHANGED <<resultBytes, cfg, strategy>>
        /\ result' = FinalResult(file, resultBytes', cfg', strategy')
        /\ pc' = "done"
        /\ cur' = NoPass
        /\ UNCHANGED <<api, file, args, analysis, progress, objectVars, resolverVars>>

AdaptiveNext ==
    \/ AdaptiveLoad
    \/ AdaptiveResolve
    \/ AdaptivePassProgress
    \/ AdaptivePassPage
    \/ AdaptivePass1Save
    \/ AdaptivePass2Save

SpecAdaptive == AdaptiveInit /\ [][AdaptiveNext]_vars

\* C1: a result of multi-pass compressPDFAdaptive with status 'success' has
\* data.byteLength <= file.size, for every level, classification, ignoreSafety,
\* custom config and byte size produced by each rendering pass.
C1_NeverGrow ==
    (api = "adaptive" /\ result.status = "success")
        => result.data.size <= file.size

\* C1 witness: pass 1 with a custom config produced more bytes than the file
\* has, and the call returned success
C1_Witness ==
    /\ api = "adaptive"
    /\ result.status = "success"
    /\ args.custom
    /\ Len(passes) = 1
    /\ passes[1].size > file.size

\* the projectedDPI of the config the call resolves: the custom config's field,
\* or the preset's for the classification at hand
ResolvedDPI ==
    IF args.custom THEN args.customConfig.projectedDPI
    ELSE getAdaptiveConfig(args.level, analysis.isTextHeavy).projectedDPI

\* C3: once multi-pass compressPDFAdaptive is past its safety check, it has
\* returned 'blocked' exactly when ignoreSafety is false and the resolved
\* config's projectedDPI is below 90; a blocked result has zero-length data,
\* compressedSize 0, meta.projectedDPI equal to the resolved projectedDPI, and
\* no rendering pass was started; with ignoreSafety the call is never blocked.
C3_SafetyGate ==
    (api = "adaptive" /\ pc \notin {"load", "resolve"} /\ file.loads)
        => /\ (result.status = "blocked")
                <=> (~args.ignoreSafety /\ ResolvedDPI < 90)
           /\ (result.status = "blocked")
                => /\ pc = "done"
                   /\ result.data.size = 0
                   /\ result.meta.compressedSize = 0
                   /\ result.meta.projectedDPI = ResolvedDPI
                   /\ passes = << >>
                   /\ cur.kind = "none"
                   /\ progress = << >>
           /\ args.ignoreSafety => result.status # "blocked"

\* C3 witness: a custom config with projectedDPI 89 and a scale of 1.5 was
\* blocked
C3_Witness ==
    /\ api = "adaptive"
    /\ result.status = "blocked"
    /\ args.custom
    /\ args.customConfig.projectedDPI = 89
    /\ args.customConfig.scale = 15000

\* some executed pass produced bytes strictly smaller than the file
SomePassSmaller == \E k \in 1..Len(passes) : passes[k].size < file.size

\* C5: every non-blocked result of multi-pass compressPDFAdaptive is either
\* (a) the bytes of an executed pass, strictly smaller than file.size, or
\* (b) the original bytes with strategyUsed 'Aborted (Safety Lock)'; and (b)
\* is returned exactly when no executed pass produced bytes strictly smaller
\* than file.size.
C5_Trichotomy ==
    (api = "adaptive" /\ result.status = "success")
        => LET a == /\ result.data.src \in {"pass1", "pass2"}
                    /\ result.data.size < file.size
                    /\ result.meta.strategyUsed # "Aborted (Safety Lock)"
               b == /\ result.data = OriginalBytes(file)
                    /\ result.meta.strategyUsed = "Aborted (Safety Lock)"
           IN /\ a \/ b
              /\ ~(a /\ b)
              /\ b <=> ~SomePassSmaller

\* C5 witness: the escalation pass ran, was still not smaller than the file,
\* and the call returned the original bytes
C5_Witness ==
    /\ api = "adaptive"
    /\ result.status = "success"
    /\ Len(passes) = 2
    /\ passes[2].kind = "escalate"
    /\ passes[2].size >= file.size
    /\ result.data = OriginalBytes(file)

\* further cases of C5: the escalation pass was skipped as unsafe
C5_SkippedCase ==
    /\ api = "adaptive"
    /\ result.status = "success"
    /\ strategy = "Pass 2 Unsafe (Skipped)"
    /\ result.meta.strategyUsed = "Aborted (Safety Lock)"

\* further cases of C5: a squeeze pass ran and its bytes were returned
C5_SqueezeCase ==
    /\ api = "adaptive"
    /\ result.status = "success"
    /\ result.meta.strategyUsed = "Adaptive Squeeze"
    /\ result.data.src = "pass2"

\* the rendering passes started so far: the finished ones and the one in
\* progress
StartedPasses ==
    IF cur.kind \in {"first", "escalate", "squeeze"}
    THEN Append(passes, cur)
    ELSE passes

\* C18: in multi-pass compressPDFAdaptive an escalation pass is started only
\* as the second pass, without a customConfig, and after pass 1 produced
\* size >= file.size; it renders at scale 0.7 * pass-1 scale and quality
\* max(0.3, pass-1 quality - 0.2); its bytes are returned, with strategy
\* 'Adaptive Fallback' and with scale and quality set to the escalated values
\* (meta.effectiveScale / effectiveQuality report them with two decimals),
\* exactly when they are strictly smaller than file.size; with a customConfig
\* exactly one rendering pass is executed.
C18_Escalation ==
    api = "adaptive"
        => /\ \A k \in 1..Len(StartedPasses) :
                StartedPasses[k].kind = "escalate"
                  => /\ k = 2
                     /\ ~args.custom
                     /\ passes[1].size >= file.size
                     /\ StartedPasses[k].scale * 10 = passes[1].scale * 7
                     /\ StartedPasses[k].quality
                          = Max(3000, passes[1].quality - 2000)
                     /\ \A j \in 1..Len(StartedPasses[k].pages) :
                          /\ StartedPasses[k].pages[j].scale = StartedPasses[k].scale
                          /\ StartedPasses[k].pages[j].quality
                               = StartedPasses[k].quality
           /\ args.custom
                => /\ Len(StartedPasses) <= 1
                   /\ result.status = "success" => Len(passes) = 1
           /\ (result.status = "success" /\ Len(passes) = 2
                 /\ passes[2].kind = "escalate")
                => IF passes[2].size < file.size
                   THEN /\ result.data = [src |-> "pass2", size |-> passes[2].size]
                        /\ result.meta.strategyUsed = "Adaptive Fallback"
                        /\ cfg.scale = passes[2].scale
                        /\ cfg.quality = passes[2].quality
                        /\ result.meta.effectiveScale = ToFixed2(passes[2].scale)
                        /\ result.meta.effectiveQuality = ToFixed2(passes[2].quality)
                   ELSE /\ result.data = OriginalBytes(file)
                        /\ result.meta.strategyUsed # "Adaptive Fallback"
                        /\ strategy # "Adaptive Fallback"
                        /\ cfg.scale = passes[1].scale
                        /\ cfg.quality = passes[1].quality
           /\ (result.status = "success"
                 /\ result.meta.strategyUsed = "Adaptive Fallback")
                => /\ Len(passes) = 2
                   /\ passes[2].kind = "escalate"
                   /\ passes[2].size < file.size

\* C18 witness: on a text-heavy document at level extreme with ignoreSafety,
\* pass 1 at scale 0.68 was not smaller than the file, the escalation pass ran
\* at scale 0.476 and quality 0.3 and was adopted; effectiveScale reports 0.48
C18_Witness ==
    /\ api = "adaptive"
    /\ result.status = "success"
    /\ result.meta.strategyUsed = "Adaptive Fallback"
    /\ Len(passes) = 2
    /\ passes[1].scale = 6800
    /\ passes[2].scale = 4760
    /\ passes[2].quality = 3000
    /\ result.meta.effectiveScale = 4800

\* C19: in multi-pass compressPDFAdaptive with ignoreSafety = false no
\* escalation or squeeze pass with scale * 72 < 90 is started and no page is
\* rendered at such a scale; where the escalation or the squeeze would run at
\* such a scale it is skipped: pass 1 is the only pass and its bytes are the
\* candidate result.
C19_EscalationSafety ==
    (api = "adaptive" /\ ~args.ignoreSafety)
        => /\ \A k \in 1..Len(StartedPasses) :
                StartedPasses[k].kind \in {"escalate", "squeeze"}
                  => /\ StartedPasses[k].scale * 72 >= 90 * U
                     /\ \A j \in 1..Len(StartedPasses[k].pages) :
                          StartedPasses[k].pages[j].scale * 72 >= 90 * U
           /\ (/\ Len(passes) >= 1
               /\ ~args.custom
               /\ \/ /\ passes[1].size >= file.size
                     /\ ((passes[1].scale * 7) \div 10) * 72 < 90 * U
                  \/ /\ passes[1].size < file.size
                     /\ args.level = "extreme"
                     /\ 5 * passes[1].size > 4 * file.size
                     /\ ((passes[1].scale * 8) \div 10) * 72 < 90 * U)
                => /\ Len(StartedPasses) = 1
                   /\ pc = "done"
                   /\ resultBytes = [src |-> "pass1", size |-> passes[1].size]

\* C19 witness: level recommended on a document that is not text-heavy,
\* without ignoreSafety: pass 1 at scale 1.4 was not smaller than the file,
\* the escalation at scale 0.98 (70.56 DPI) was skipped
C19_Witness ==
    /\ api = "adaptive"
    /\ ~args.ignoreSafety
    /\ ~args.custom
    /\ args.level = "recommended"
    /\ pc = "done"
    /\ Len(passes) = 1
    /\ passes[1].scale = 14000
    /\ passes[1].size >= file.size
    /\ strategy = "Pass 2 Unsafe (Skipped)"
    /\ resultBytes.src = "pass1"

\* ------------------------------------------------------------------------
\* Legacy compressPDFAdaptive (pdfService.ts 701-771)
\* ------------------------------------------------------------------------
\* the DPI floor of the legacy safety check (line 713)
LegacySafetyDPI == 70

\* customConfig || getAdaptiveConfig(level, analysis.isTextHeavy) (line 710)
legacyResolveConfig(a, an) ==
    IF a.custom THEN a.customConfig
    ELSE legacyGetAdaptiveConfig(a.level, an.isTextHeavy)

\* the test of the legacy safety check (lines 713-714); the argument
\* overrideSafety is the field ignoreSafety of args
legacyBlocks(a, c, an) ==
    /\ ~a.ignoreSafety
    /\ c.projectedDPI < LegacySafetyDPI
    /\ an.isTextHeavy
    /\ a.level = "extreme"

\* the 'blocked' return of line 714
LegacyBlockedResult ==
    [status |-> "blocked",
     data |-> EmptyBytes,
     meta |-> [compressedSize |-> 0, projectedDPI |-> 0, strategyUsed |-> ""]]

\* the return statement of lines 762-770; the label stands for the template
\* `Rasterization (Scale ${scale.toFixed(1)}, Q${quality.toFixed(1)})`
LegacyResult(rb, c) ==
    [status |-> "success",
     data |-> rb,
     meta |-> [compressedSize |-> rb.size,
               projectedDPI |-> c.projectedDPI,
               strategyUsed |-> "Rasterization (Scale, Q)"]]

LegacyInit ==
    /\ api = "legacy"
    /\ pc = "resolve"
    /\ file \in LoadableFiles \cup BrokenFiles
    /\ args \in AdaptiveArgs
    /\ analysis = NoAnalysis
    /\ cfg = NoConfig
    /\ resultBytes = NoBytes
    /\ strategy = ""
    /\ passes = << >>
    /\ cur = NoPass
    /\ progress = << >>
    /\ objs = << >>
    /\ imagesToCompress = << >>
    /\ result = NoResult
    /\ query = NoQuery
    /\ answer = NoConfig

\* lines 709-715: classify, resolve the config and run the safety check
LegacyResolve ==
    /\ api = "legacy"
    /\ pc = "resolve"
    /\ analysis' = analyzePDF(file)
    /\ cfg' = legacyResolveConfig(args, analysis')
    /\ IF legacyBlocks(args, cfg', analysis')
       THEN /\ result' = LegacyBlockedResult
            /\ pc' = "done"
       ELSE /\ pc' = "load"
            /\ UNCHANGED result
    /\ UNCHANGED <<api, file, args, resultBytes, strategy, passes, cur, progress,
                   objectVars, resolverVars>>

\* lines 717-722: load the file with pdf.js and create the new document
LegacyLoad ==
    /\ api = "legacy"
    /\ pc = "load"
    /\ IF file.loads
       THEN /\ pc' = "pass"
            /\ cur' = NewPass("legacy", cfg.scale, cfg.quality, 0, 90)
            /\ UNCHANGED result
       ELSE /\ pc' = "done"
            /\ result' = Threw("load")
            /\ UNCHANGED cur
    /\ UNCHANGED <<api, file, args, analysis, cfg, resultBytes, strategy, passes,
                   progress, objectVars, resolverVars>>

\* one iteration of the page loop (lines 724-757): without a 2d context the
\* page is skipped; otherwise fill white, render at config.scale, encode at
\* config.quality, append the page and report Math.round((i / numPages) * 90)
LegacyPage ==
    /\ api = "legacy"
    /\ pc = "pass"
    /\ cur.i < file.numPages
    /\ LET i == cur.i + 1 IN
         IF file.canvas
         THEN /\ cur' = [cur EXCEPT
                           !.i = i,
                           !.pages = Append(@, [src |-> i, scale |-> cfg.scale,
                                                quality |-> cfg.quality,
                                                box |-> U,
                                                ops |-> <<"fill", "render", "encode">>])]
              /\ progress' = Append(progress,
                                    Pct(RoundProduct(i, file.numPages, 90), 1))
         ELSE /\ cur' = [cur EXCEPT !.i = i]
              /\ UNCHANGED progress
    /\ UNCHANGED <<api, pc, file, args, analysis, cfg, resultBytes, strategy,
                   passes, objectVars, result, resolverVars>>

\* lines 759-770: newPdfDoc.save() produces r bytes, progress 100, return
LegacySave ==
    \E r \in SavedSizes :
        /\ api = "legacy"
        /\ pc = "pass"
        /\ cur.i = file.numPages
        /\ passes' = Append(passes, [cur EXCEPT !.size = r])
        /\ cur' = NoPass
        /\ resultBytes' = [src |-> "pass1", size |-> r]
        /\ progress' = Append(progress, Pct(100, 1))
        /\ result' = LegacyResult(resultBytes', cfg)
        /\ pc' = "done"
        /\ UNCHANGED <<api, file, args, analysis, cfg, strategy, objectVars, resolverVars>>

LegacyNext ==
    \/ LegacyResolve
    \/ LegacyLoad
    \/ LegacyPage
    \/ LegacySave

SpecLegacy == LegacyInit /\ [][LegacyNext]_vars

\* C4 (as claimed): in the legacy compressPDFAdaptive, for every level and
\* every config (preset or custom) with projectedDPI < 70 on a text-heavy
\* document with overrideSafety false, the call is past its safety check only
\* as 'blocked', with zero-length data and no page rendered.
C4_LegacyGate ==
    (api = "legacy" /\ pc # "resolve"
       /\ ~args.ignoreSafety /\ analysis.isTextHeavy /\ cfg.projectedDPI < 70)
        => /\ result.status = "blocked"
           /\ result.data.size = 0
           /\ passes = << >>
           /\ cur.pages = << >>

\* ------------------------------------------------------------------------
\* compressPDFSmart with compressPDFObjects and compressPDFVisual
\* (pdfService.ts 1448-1715)
\* ------------------------------------------------------------------------
\* Indirect objects of a document.  stream: the object is a PDFRawStream;
\* subtype, filter, width, height: entries of its dictionary ("none" / 0 when
\* absent); len: the length of its contents; pw, ph: the pixel dimensions of
\* the image its contents encode; decodes: the browser's Image loads it.
FontDict ==
    [stream |-> FALSE, subtype |-> "none", filter |-> "none", width |-> 0,
     height |-> 0, len |-> 0, pw |-> 0, ph |-> 0, decodes |-> FALSE]
ContentStream ==
    [stream |-> TRUE, subtype |-> "none", filter |-> "FlateDecode", width |-> 0,
     height |-> 0, len |-> MaxLen, pw |-> 0, ph |-> 0, decodes |-> FALSE]
FlateImage ==
    [stream |-> TRUE, subtype |-> "Image", filter |-> "FlateDecode", width |-> 4,
     height |-> 2, len |-> MaxLen, pw |-> 4, ph |-> 2, decodes |-> FALSE]
\* a JPEG image whose Filter entry is the one-element array [/DCTDecode]
ArrayFilterImage ==
    [stream |-> TRUE, subtype |-> "Image", filter |-> "[DCTDecode]", width |-> 4,
     height |-> 2, len |-> 2, pw |-> 4, ph |-> 2, decodes |-> TRUE]
\* a JPEG image of 45 x 85 pixels: at scale 0.7 both products, 31.5 and 59.5 in
\* decimals, are doubles below the tie
JpegImage(decodes) ==
    [stream |-> TRUE, subtype |-> "Image", filter |-> "DCTDecode", width |-> 45,
     height |-> 85, len |-> 2, pw |-> 45, ph |-> 85, decodes |-> decodes]

ObjectKinds == {FontDict, ContentStream, FlateImage, ArrayFilterImage,
                JpegImage(TRUE), JpegImage(FALSE)}

\* object graphs of up to MaxObjects indirect objects, in enumeration order
ObjectGraphs == UNION {[1..n -> ObjectKinds] : n \in 0..MaxObjects}

\* documents both libraries read: any object graph; one page, or MaxPages
\* pages and a graph that pdfDoc.save() cannot serialize
ObjectFiles ==
    {[size |-> MaxBytes, numPages |-> 1,
      loads |-> TRUE, pages |-> <<[items |-> 20, readable |-> TRUE]>>,
      canvas |-> c, libLoads |-> TRUE, enumerates |-> TRUE, libSaves |-> TRUE,
      objects |-> g] :
        c \in BOOLEAN, g \in ObjectGraphs}
    \cup
    {[size |-> MaxBytes, numPages |-> MaxPages,
      loads |-> TRUE,
      pages |-> [i \in 1..MaxPages |-> [items |-> 20, readable |-> TRUE]],
      canvas |-> TRUE, libLoads |-> TRUE, enumerates |-> TRUE, libSaves |-> FALSE,
      objects |-> g] :
        g \in ObjectGraphs}

\* documents for the rasterizing paths: any page count, and what each library
\* makes of the bytes (pdf-lib load, object enumeration, pdf.js load, canvas,
\* pdf-lib save)
PageFiles ==
    {[size |-> s, numPages |-> n,
      loads |-> fl[3], pages |-> [i \in 1..n |-> [items |-> 20, readable |-> TRUE]],
      canvas |-> fl[4], libLoads |-> fl[1], enumerates |-> fl[2],
      libSaves |-> fl[5], objects |-> << >>] :
        s \in FileSizes, n \in (0..MaxPages) \cup {ManyPages},
        fl \in {<<TRUE, TRUE, TRUE, TRUE, TRUE>>, <<TRUE, TRUE, TRUE, FALSE, TRUE>>,
                <<FALSE, FALSE, TRUE, TRUE, FALSE>>, <<TRUE, FALSE, TRUE, TRUE, FALSE>>,
                <<FALSE, FALSE, FALSE, TRUE, FALSE>>, <<TRUE, TRUE, FALSE, TRUE, TRUE>>,
                <<TRUE, TRUE, TRUE, TRUE, FALSE>>}}

\* options.preserveText is "omitted" when the caller leaves it out
SmartArgs ==
    [level : SmartLevels, preserveText : {"omitted", "true", "false"},
     grayscale : BOOLEAN]

\* mutant of preserveTextOption: an omitted option counts as false
MutPreserveTextDefaultFalse(option) == option = "true"

\* options.preserveText ?? true (line 1666)
preserveTextOption(option) == option # "false"

\* mutant of isJpegImage: the Filter entry is not looked at
MutIsJpegImageAnyFilter(o) == o.stream /\ o.subtype = "Image"

\* the test that picks a stream for recompression (lines 1531-1538)
isJpegImage(o) == o.stream /\ o.subtype = "Image" /\ o.filter = "DCTDecode"

\* the loop of lines 1529-1542: the indices of the picked streams among
\* objects 1..n, in enumeration order
RECURSIVE pickImages(_, _)
pickImages(objects, n) ==
    IF n = 0 THEN << >>
    ELSE IF isJpegImage(objects[n])
         THEN Append(pickImages(objects, n - 1), n)
         ELSE pickImages(objects, n - 1)

\* what processImageBuffer resolves to (lines 1460-1500) when the encoder
\* emits m bytes: the target dimensions of lines 1462-1463
processImageBuffer(o, scale, m) ==
    [len |-> m,
     width |-> Max(1, RoundProduct(scale, U, o.pw)),
     height |-> Max(1, RoundProduct(scale, U, o.ph))]

\* mutant of replaceStream: a re-encoding of equal length is accepted
MutReplaceStreamNotLarger(o, res) ==
    IF res.len <= o.len
    THEN [o EXCEPT !.len = res.len, !.pw = res.width, !.ph = res.height,
                   !.width = res.width, !.height = res.height,
                   !.filter = "DCTDecode"]
    ELSE o

\* the stream after lines 1561-1570 have looked at the re-encoding res
replaceStream(o, res) ==
    IF res.len < o.len
    THEN [o EXCEPT !.len = res.len, !.pw = res.width, !.ph = res.height,
                   !.width = res.width, !.height = res.height,
                   !.filter = "DCTDecode"]
    ELSE o

\* mutant of nextStreamStep: a failed stream is not caught in the loop and
\* lands in the catch clause of compressPDFSmart
MutNextStreamStepRethrow(failed, processed, n) ==
    IF failed THEN "vload"
    ELSE IF processed = n THEN "save" ELSE "streams"

\* where compressPDFObjects goes after a stream (lines 1547-1577): the catch
\* of line 1571 swallows a failure, and the loop goes on to the next stream
\* or ends
nextStreamStep(failed, processed, n) ==
    IF processed = n THEN "save" ELSE "streams"

\* the return values of compressPDFSmart; status "success" stands for the
\* resolved promise
SmartResult(rb, method) == [status |-> "success", data |-> rb, method |-> method]

\* the config compressPDFVisual runs with in the catch clause (line 1712)
FallbackPass == NewPass("fallback", 5000, 5000, 0, 100)

SmartInit ==
    /\ api = "smart"
    /\ pc = "start"
    /\ file \in ObjectFiles \cup PageFiles
    /\ args \in SmartArgs
    /\ analysis = NoAnalysis
    /\ cfg = NoConfig
    /\ resultBytes = NoBytes
    /\ strategy = ""
    /\ passes = << >>
    /\ cur = NoPass
    /\ progress = << >>
    /\ objs = << >>
    /\ imagesToCompress = << >>
    /\ result = NoResult
    /\ query = NoQuery
    /\ answer = NoConfig

\* lines 1661-1688 and 1704-1706: map the options to a config and pick the
\* branch
SmartStart ==
    /\ api = "smart"
    /\ pc = "start"
    /\ cfg' = smartConfig(args.level, preserveTextOption(args.preserveText),
                          args.grayscale)
    /\ IF cfg'.preserveText
       THEN /\ progress' = Append(progress, Pct(10, 1))
            /\ pc' = "libload"
            /\ UNCHANGED cur
       ELSE /\ pc' = "vload"
            /\ cur' = NewPass("visual", cfg'.scale, cfg'.quality, 0, 100)
            /\ UNCHANGED progress
    /\ UNCHANGED <<api, file, args, analysis, resultBytes, strategy, passes,
                   objectVars, result, resolverVars>>

\* lines 1689-1690: PDFDocument.load; a throw lands in the catch clause, which
\* starts compressPDFVisual at scale 0.5 and quality 0.5
SmartLibLoad ==
    /\ api = "smart"
    /\ pc = "libload"
    /\ IF file.libLoads
       THEN /\ objs' = file.objects
            /\ pc' = "enumerate"
            /\ UNCHANGED cur
       ELSE /\ pc' = "vload"
            /\ cur' = FallbackPass
            /\ UNCHANGED objs
    /\ UNCHANGED <<api, file, args, analysis, cfg, resultBytes, strategy, passes,
                   progress, imagesToCompress, result, resolverVars>>

\* compressPDFObjects, lines 1520-1544: walk the indirect objects and pick the
\* streams to recompress; a throw of the walk lands in the catch clause
ObjectsEnumerate ==
    /\ api = "smart"
    /\ pc = "enumerate"
    /\ IF file.enumerates
       THEN /\ imagesToCompress' = pickImages(objs, Len(objs))
            /\ pc' = IF imagesToCompress' = << >> THEN "save" ELSE "streams"
            /\ cur' = [NoPass EXCEPT !.kind = "objects"]
       ELSE /\ pc' = "vload"
            /\ cur' = FallbackPass
            /\ UNCHANGED imagesToCompress
    /\ UNCHANGED <<api, file, args, analysis, cfg, resultBytes, strategy, passes,
                   progress, objs, result, resolverVars>>

\* compressPDFObjects, one iteration of the loop of lines 1547-1577:
\* processImageBuffer rejects (m = 0: the image does not decode, no canvas
\* context, or the encoder returns nothing) or resolves to m bytes; the stream
\* is replaced if that is smaller; progress is reported either way
ObjectsStream ==
    \E m \in 0..MaxLen :
        /\ api = "smart"
        /\ pc = "streams"
        /\ cur.i < Len(imagesToCompress)
        /\ LET k == imagesToCompress[cur.i + 1]
               processed == cur.i + 1
               n == Len(imagesToCompress)
           IN /\ (~objs[k].decodes \/ ~file.canvas) => m = 0
              /\ objs' = IF m = 0 THEN objs
                         ELSE [objs EXCEPT ![k] =
                                 replaceStream(@, processImageBuffer(@, cfg.scale, m))]
              /\ cur' = [cur EXCEPT !.i = processed]
              \* onProgress(10 + ((processed / n) * 100) * 0.8)
              /\ progress' = Append(progress, Pct(10 * n + 80 * processed, n))
              /\ pc' = nextStreamStep(m = 0, processed, n)
        /\ UNCHANGED <<api, file, args, analysis, cfg, resultBytes, strategy,
                       passes, imagesToCompress, result, resolverVars>>

\* lines 1697-1702: pdfDoc.save() produces r bytes, which are returned; a
\* throw of save() lands in the catch clause
SmartSave ==
    \E r \in SavedSizes :
        /\ api = "smart"
        /\ pc = "save"
        /\ IF file.libSaves
           THEN /\ resultBytes' = [src |-> "saved", size |-> r]
                /\ result' = SmartResult(resultBytes', "Smart Object Optimization")
                /\ pc' = "done"
                /\ cur' = NoPass
           ELSE /\ pc' = "vload"
                /\ cur' = FallbackPass
                /\ UNCHANGED <<resultBytes, result>>
        /\ UNCHANGED <<api, file, args, analysis, cfg, strategy, passes, progress,
                       objectVars, resolverVars>>

\* compressPDFVisual, lines 1590-1593: load the file with pdf.js.  A throw in
\* the try block lands in the catch clause; a throw in the catch clause
\* rejects the promise of compressPDFSmart
VisualLoad ==
    /\ api = "smart"
    /\ pc = "vload"
    /\ IF file.loads
       THEN /\ pc' = "vpass"
            /\ UNCHANGED <<cur, result>>
       ELSE IF cur.kind = "visual"
            THEN /\ cur' = FallbackPass
                 /\ UNCHANGED <<pc, result>>
            ELSE /\ pc' = "done"
                 /\ result' = Threw("load")
                 /\ cur' = NoPass
    /\ UNCHANGED <<api, file, args, analysis, cfg, resultBytes, strategy, passes,
                   progress, objectVars, resolverVars>>

\* compressPDFVisual, the head of an iteration of the page loop (lines
\* 1595-1597): report (i / numPages) * 100, then await pdf.getPage(i); the new
\* document does not have the page yet
VisualProgress ==
    /\ api = "smart"
    /\ pc = "vpass"
    /\ cur.i < file.numPages
    /\ progress' = Append(progress, Pct(100 * (cur.i + 1), file.numPages))
    /\ pc' = "vpage"
    /\ UNCHANGED <<api, file, args, analysis, cfg, resultBytes, strategy, passes,
                   cur, objectVars, result, resolverVars>>

\* compressPDFVisual, the rest of the iteration (lines 1598-1644), after
\* getPage resolved: without a 2d context skip the page; else fill white,
\* render at Math.max(1.5, config.scale * 2), grayscale if asked, encode at
\* config.quality and append the page
VisualPage ==
    /\ api = "smart"
    /\ pc = "vpage"
    /\ pc' = "vpass"
    /\ LET i == cur.i + 1 IN
         /\ cur' = IF file.canvas
                   THEN [cur EXCEPT
                           !.i = i,
                           !.pages = Append(@,
                               [src |-> i,
                                scale |-> Max(15000, cur.scale * 2),
                                quality |-> cur.quality,
                                box |-> U,
                                ops |-> IF cfg.grayscale
                                        THEN <<"fill", "render", "grayscale", "encode">>
                                        ELSE <<"fill", "render", "encode">>])]
                   ELSE [cur EXCEPT !.i = i]
    /\ UNCHANGED <<api, file, args, analysis, cfg, resultBytes, strategy,
                   passes, progress, objectVars, result, resolverVars>>

\* line 1646 and the return of line 1707 or 1713: newPdf.save() produces r bytes
VisualSave ==
    \E r \in SavedSizes :
        /\ api = "smart"
        /\ pc = "vpass"
        /\ cur.i = file.numPages
        /\ passes' = Append(passes, [cur EXCEPT !.size = r])
        /\ cur' = NoPass
        /\ resultBytes' = [src |-> "pass1", size |-> r]
        /\ result' = SmartResult(resultBytes',
                                 IF cur.kind = "visual" THEN "Visual Reconstruction"
                                 ELSE "Fallback Rasterization")
        /\ pc' = "done"
        /\ UNCHANGED <<api, file, args, analysis, cfg, strategy, progress,
                       objectVars, resolverVars>>

SmartNext ==
    \/ SmartStart
    \/ SmartLibLoad
    \/ ObjectsEnumerate
    \/ ObjectsStream
    \/ SmartSave
    \/ VisualLoad
    \/ VisualProgress
    \/ VisualPage
    \/ VisualSave

SpecSmart == SmartInit /\ [][SmartNext]_vars

\* compressPDFSmart has loaded the document with pdf-lib: the object pass is
\* running or over
ObjectPass ==
    /\ api = "smart"
    /\ pc \notin {"start", "libload"}
    /\ cfg.preserveText
    /\ file.libLoads

\* an indirect object compressPDFObjects may recompress: a raw stream whose
\* dictionary has Subtype = Image and Filter = DCTDecode
Eligible(o) == o.stream /\ o.subtype = "Image" /\ o.filter = "DCTDecode"

\* C6: compressPDFObjects changes only raw streams with Subtype = Image and
\* Filter = DCTDecode: at every point of the pass every other object of the
\* loaded document (non-image objects, image streams with another filter) has
\* the dictionary entries and the payload it had in the input, whatever the
\* config and the outcome of each stream.
C6_ObjectPurity ==
    ObjectPass
        => /\ Len(objs) = Len(file.objects)
           /\ \A k \in 1..Len(objs) :
                ~Eligible(file.objects[k]) => objs[k] = file.objects[k]

\* C6 witness: the pass is over, it replaced a JPEG stream, and the document
\* also holds an image stream with another Filter value
C6_Witness ==
    /\ api = "smart"
    /\ pc = "done"
    /\ Len(objs) = 2
    /\ \E k \in 1..2 : objs[k] # file.objects[k]
    /\ \E j \in 1..2 : file.objects[j] = ArrayFilterImage

\* C7: every eligible stream is at every point of compressPDFObjects either
\* as it was in the input, or replaced by a re-encoding strictly shorter than
\* the original payload, with Width and Height set to the pixel dimensions of
\* the new payload (the original's scaled by config.scale and rounded, at
\* least 1) and Filter still DCTDecode; so the declared dimensions match the
\* payload that is stored.
C7_ReplaceOnlySmaller ==
    ObjectPass
        => \A k \in 1..Len(objs) :
             Eligible(file.objects[k])
               => LET old == file.objects[k]
                      new == objs[k]
                  IN /\ \/ new = old
                        \/ /\ new.len < old.len
                           /\ new.pw = Max(1, RoundProduct(cfg.scale, U, old.pw))
                           /\ new.ph = Max(1, RoundProduct(cfg.scale, U, old.ph))
                           /\ new.filter = "DCTDecode"
                           /\ new.subtype = "Image"
                           /\ new.stream
                     /\ new.width = new.pw
                     /\ new.height = new.ph

\* C7 witness: at level recommended (scale 0.7) a 45 x 85 JPEG of 2 bytes was
\* replaced by a 31 x 59 JPEG of 1 byte
C7_Witness ==
    /\ api = "smart"
    /\ pc = "done"
    /\ args.level = "recommended"
    /\ \E k \in 1..Len(objs) :
         /\ file.objects[k] = JpegImage(TRUE)
         /\ objs[k].len = 1
         /\ objs[k].width = 31
         /\ objs[k].height = 59

\* C7 further case: the pass is over and the only JPEG stream of the document
\* is as it was in the input
C7_KeptCase ==
    /\ api = "smart"
    /\ pc = "done"
    /\ file.canvas
    /\ file.objects = <<JpegImage(TRUE)>>
    /\ objs = file.objects

\* a step of the try block of compressPDFSmart throws on this file: in the
\* object branch PDFDocument.load, the object walk or pdfDoc.save(); in the
\* visual branch the pdf.js load of compressPDFVisual
SmartStepThrows ==
    IF cfg.preserveText
    THEN ~file.libLoads \/ ~file.enumerates \/ ~file.libSaves
    ELSE ~file.loads

\* C11 (as claimed): a call of compressPDFSmart that is over has resolved, for
\* every document including a corrupt one; and whenever a step of the smart
\* path threw (document load, object enumeration, save, or the visual branch)
\* it ran Visual Reconstruction with scale 0.5 and quality 0.5 and returned
\* method 'Fallback Rasterization'.
C11_CatchAllDegrade ==
    (api = "smart" /\ pc = "done")
        => /\ result.status = "success"
           /\ SmartStepThrows
                => /\ result.method = "Fallback Rasterization"
                   /\ Len(passes) = 1
                   /\ passes[1].kind = "fallback"
                   /\ passes[1].scale = 5000
                   /\ passes[1].quality = 5000

\* C12 (as claimed): in compressPDFSmart with preserveText = true, when the
\* object pass leaves the saved output at a size >= the input size, the call
\* escalates to Visual Reconstruction and returns an output smaller than the
\* input with strategy 'Adaptive Fallback'.
C12_EscalatesWhenIneffective ==
    (api = "smart" /\ pc = "done" /\ cfg.preserveText
       /\ resultBytes.src = "saved" /\ resultBytes.size >= file.size)
        => /\ result.status = "success"
           /\ result.method = "Adaptive Fallback"
           /\ result.data.size < file.size
           /\ Len(passes) > 0

\* C20: per-stream failure isolation in compressPDFObjects: a stream whose
\* decoding or re-encoding fails is left unchanged; the failure is not
\* propagated (if no other step throws, no page is rasterized and the call
\* returns 'Smart Object Optimization'); every eligible stream is picked and
\* processed, each reporting progress processed / n * 100, which the caller
\* sees as 10 + 0.8 * that: the entry after the last stream is 90, that is
\* 100 percent of the pass.
C20_StreamIsolation ==
    (ObjectPass /\ file.enumerates /\ pc # "enumerate")
        => LET n == Len(imagesToCompress) IN
           /\ \A k \in 1..Len(objs) :
                (Eligible(file.objects[k])
                   /\ (~file.objects[k].decodes \/ ~file.canvas))
                  => objs[k] = file.objects[k]
           /\ \A k \in 1..Len(objs) :
                Eligible(file.objects[k])
                  => \E j \in 1..n : imagesToCompress[j] = k
           /\ ~SmartStepThrows
                => /\ passes = << >>
                   /\ cur.kind \in {"objects", "none"}
                   /\ pc \in {"streams", "save", "done"}
                   /\ pc = "done"
                        => /\ result.status = "success"
                           /\ result.method = "Smart Object Optimization"
           /\ pc = "streams" => Len(progress) = 1 + cur.i
           /\ (n > 0 /\ pc # "streams")
                => /\ Len(progress) >= 1 + n
                   /\ \A j \in 1..n : progress[1 + j] = Pct(10 * n + 80 * j, n)
                   /\ progress[1 + n].num = 90 * progress[1 + n].den

\* C20 witness: the first of two JPEG streams does not decode and is as it
\* was, the second was replaced by a shorter re-encoding, progress went
\* 10, 50, 90, and the call returned 'Smart Object Optimization'
C20_Witness ==
    /\ api = "smart"
    /\ pc = "done"
    /\ file.canvas
    /\ file.objects = <<JpegImage(FALSE), JpegImage(TRUE)>>
    /\ Len(objs) = 2
    /\ objs[1] = JpegImage(FALSE)
    /\ objs[2].len = 1
    /\ progress = <<Pct(10, 1), Pct(100, 2), Pct(180, 2)>>
    /\ result.status = "success"
    /\ result.method = "Smart Object Optimization"

\* C17: strategy selection in compressPDFSmart when no step throws: with
\* preserveText true or omitted only the object-level recompressor runs, no
\* page is rasterized, and the method is 'Smart Object Optimization'; with
\* preserveText false Visual Reconstruction runs directly, the object graph is
\* never loaded or walked, and the method is 'Visual Reconstruction'.
C17_StrategySelection ==
    (api = "smart" /\ pc # "start" /\ ~SmartStepThrows)
        => /\ args.preserveText \in {"true", "omitted"}
                => /\ passes = << >>
                   /\ cur.pages = << >>
                   /\ cur.kind \in {"none", "objects"}
                   /\ pc \in {"libload", "enumerate", "streams", "save", "done"}
                   /\ pc = "done"
                        => /\ result.status = "success"
                           /\ result.method = "Smart Object Optimization"
                           /\ result.data.src = "saved"
           /\ args.preserveText = "false"
                => /\ objs = << >>
                   /\ imagesToCompress = << >>
                   /\ cur.kind \in {"none", "visual"}
                   /\ pc \in {"vload", "vpass", "vpage", "done"}
                   /\ pc = "done"
                        => /\ result.status = "success"
                           /\ result.method = "Visual Reconstruction"
                           /\ Len(passes) = 1
                           /\ passes[1].kind = "visual"

\* C17 witness: preserveText was omitted, the object pass replaced a JPEG
\* stream, and the call returned 'Smart Object Optimization'
C17_Witness ==
    /\ api = "smart"
    /\ pc = "done"
    /\ args.preserveText = "omitted"
    /\ result.status = "success"
    /\ result.method = "Smart Object Optimization"
    /\ objs # file.objects
    /\ passes = << >>

\* C17 further case: preserveText false on a document with a JPEG stream
\* returned 'Visual Reconstruction' with the object graph untouched
C17_VisualCase ==
    /\ api = "smart"
    /\ pc = "done"
    /\ args.preserveText = "false"
    /\ Len(file.objects) > 0
    /\ result.status = "success"
    /\ result.method = "Visual Reconstruction"
    /\ objs = << >>

\* ------------------------------------------------------------------------
\* Resolver calls: the level presets and the slider of the compress dialog
\* ------------------------------------------------------------------------
SliderValues == 0..100

ResolverInit ==
    /\ api = "resolver"
    /\ pc = "idle"
    /\ query = NoQuery
    /\ answer = NoConfig
    /\ file = NoFile
    /\ args = NoArgs
    /\ analysis = NoAnalysis
    /\ cfg = NoConfig
    /\ resultBytes = NoBytes
    /\ strategy = ""
    /\ passes = << >>
    /\ cur = NoPass
    /\ progress = << >>
    /\ objs = << >>
    /\ imagesToCompress = << >>
    /\ result = NoResult

\* a call getAdaptiveConfig(level, isTextHeavy) of the multi-pass engine
ResolveLevel ==
    \E level \in Levels, th \in BOOLEAN :
        /\ api = "resolver"
        /\ query' = [fn |-> "getAdaptiveConfig", level |-> level, value |-> 0,
                     isTextHeavy |-> th]
        /\ answer' = getAdaptiveConfig(level, th)
        /\ UNCHANGED <<api, pc, compressVars>>

\* a call getInterpolatedConfig(value, isTextHeavy) of the multi-pass engine,
\* as the slider's change handler makes it (unnamed/part_002 line 65)
ResolveSlider ==
    \E value \in SliderValues, th \in BOOLEAN :
        /\ api = "resolver"
        /\ query' = [fn |-> "getInterpolatedConfig", level |-> "less",
                     value |-> value, isTextHeavy |-> th]
        /\ answer' = getInterpolatedConfig(value, th)
        /\ UNCHANGED <<api, pc, compressVars>>

\* a call getAdaptiveConfig(level, isTextHeavy) of the legacy engine
ResolveLegacyLevel ==
    \E level \in Levels, th \in BOOLEAN :
        /\ api = "resolver"
        /\ query' = [fn |-> "legacyGetAdaptiveConfig", level |-> level,
                     value |-> 0, isTextHeavy |-> th]
        /\ answer' = legacyGetAdaptiveConfig(level, th)
        /\ UNCHANGED <<api, pc, compressVars>>

\* a call getInterpolatedConfig(sliderValue, isTextHeavy) of the legacy engine
ResolveLegacySlider ==
    \E value \in SliderValues, th \in BOOLEAN :
        /\ api = "resolver"
        /\ query' = [fn |-> "legacyGetInterpolatedConfig", level |-> "less",
                     value |-> value, isTextHeavy |-> th]
        /\ answer' = legacyGetInterpolatedConfig(value, th)
        /\ UNCHANGED <<api, pc, compressVars>>

\* the option mapping at the head of compressPDFSmart
ResolveSmart ==
    \E level \in SmartLevels :
        /\ api = "resolver"
        /\ query' = [fn |-> "smartConfig", level |-> level, value |-> 0,
                     isTextHeavy |-> FALSE]
        /\ answer' = [scale |-> smartConfig(level, TRUE, FALSE).scale,
                      quality |-> smartConfig(level, TRUE, FALSE).quality,
                      projectedDPI |-> 0]
        /\ UNCHANGED <<api, pc, compressVars>>

ResolverNext ==
    \/ ResolveLevel
    \/ ResolveSlider
    \/ ResolveLegacyLevel
    \/ ResolveLegacySlider
    \/ ResolveSmart

SpecResolver == ResolverInit /\ [][ResolverNext]_vars

\* the place of a resolver query on its input axis: the slider value, or the
\* level's position along extreme -> recommended -> less
QueryRank(q) ==
    IF q.fn \in {"getInterpolatedConfig", "legacyGetInterpolatedConfig"}
    THEN q.value
    ELSE LevelRank(q.level)

\* C8: for a fixed isTextHeavy, a resolver call with a higher level or slider
\* value than the call before it never yields a smaller scale or a smaller
\* quality: getAdaptiveConfig along extreme -> recommended -> less,
\* getInterpolatedConfig over the slider values 0..100 (after its two-decimal
\* rounding), and the level mapping of compressPDFSmart.
C8_ResolverMonotone ==
    [][(/\ query.fn \in {"getAdaptiveConfig", "getInterpolatedConfig", "smartConfig"}
        /\ query'.fn = query.fn
        /\ query'.isTextHeavy = query.isTextHeavy
        /\ query.level \in Levels
        /\ query'.level \in Levels
        /\ QueryRank(query) <= QueryRank(query'))
       => (answer.scale <= answer'.scale /\ answer.quality <= answer'.quality)]_vars

\* C8 witness: the slider at 75 on a text-heavy document, where the scale
\* 1.485 sits on a rounding tie, and the resolver has answered 1.48 / 0.75
C8_Witness ==
    /\ query.fn = "getInterpolatedConfig"
    /\ query.value = 75
    /\ query.isTextHeavy
    /\ answer.scale = 14800
    /\ answer.quality = 7500

\* C9 (as claimed): for every level the text-heavy config of getAdaptiveConfig
\* (multi-pass and legacy) has a scale not smaller and a quality not larger
\* than the config for a document that is not text-heavy.
C9_TextHeavyDirection ==
    /\ (query.fn = "getAdaptiveConfig" /\ query.isTextHeavy)
         => /\ answer.scale >= getAdaptiveConfig(query.level, FALSE).scale
            /\ answer.quality <= getAdaptiveConfig(query.level, FALSE).quality
    /\ (query.fn = "legacyGetAdaptiveConfig" /\ query.isTextHeavy)
         => /\ answer.scale >= legacyGetAdaptiveConfig(query.level, FALSE).scale
            /\ answer.quality <= legacyGetAdaptiveConfig(query.level, FALSE).quality

\* C22 (as claimed): in every config returned by getAdaptiveConfig (all
\* levels, both isTextHeavy values, multi-pass and legacy) and by
\* getInterpolatedConfig (slider values 0..100, both isTextHeavy values),
\* projectedDPI equals round(scale * 72) computed from the scale field of the
\* returned config.
C22_DPIFromScale ==
    query.fn \in {"getAdaptiveConfig", "getInterpolatedConfig",
                  "legacyGetAdaptiveConfig"}
        => answer.projectedDPI = RoundDPI(answer.scale)

\* C23 (as claimed): on a text-heavy document getInterpolatedConfig applies
\* the damping of getAdaptiveConfig to the interpolated values: the scale is
\* multiplied by 0.85 (up to the rounding to two decimals) and the quality is
\* lowered by 0.1, for every slider value.
C23_SameDamping ==
    (query.fn = "getInterpolatedConfig" /\ query.isTextHeavy)
        => LET plainScale == 6000 + (14000 * query.value) \div 100
               plain == getInterpolatedConfig(query.value, FALSE)
           IN /\ 100 * answer.scale >= 85 * plainScale - 5000
              /\ 100 * answer.scale <= 85 * plainScale + 5000
              /\ answer.quality = plain.quality - 1000

\* C24 (as claimed): at slider value 100 getInterpolatedConfig returns scale
\* 2.0 (its maxScale) and quality 0.9 (its maxQuality) exactly, and at slider
\* value 0 scale 0.6 and quality 0.3, for both values of isTextHeavy.
C24_SliderEndpoints ==
    query.fn = "getInterpolatedConfig"
        => /\ query.value = 100
                => (answer.scale = 20000 /\ answer.quality = 9000)
           /\ query.value = 0
                => (answer.scale = 6000 /\ answer.quality = 3000)

\* ------------------------------------------------------------------------
\* calculateProjectedFileSize (pdfService.ts 1282-1321), as generatePreviewPair
\* and the compress dialog call it
\* ------------------------------------------------------------------------
\* 'data:image/jpeg;base64,'.length (line 1290)
HeadLength == 23
\* the per-page and the base container overhead in bytes (line 1302)
PageOverhead == 2048
BaseOverhead == 5120

\* Math.floor((page1DataUrl.length - head.length) * 0.75) (line 1291)
RawBytes(urlLength) == ((urlLength - HeadLength) * 3) \div 4

\* estimatedRasterSize (lines 1296-1304)
EstimatedRasterSize(urlLength, pageCount) ==
    RawBytes(urlLength) * pageCount + (PageOverhead * pageCount + BaseOverhead)

\* mutant of calculateProjectedFileSize: the padded estimate is returned
\* without the Math.min
MutProjectedNoMin(urlLength, pageCount, originalFileSize, isTextHeavy) ==
    LET estimatedRasterSize == EstimatedRasterSize(urlLength, pageCount)
    IN IF estimatedRasterSize >= originalFileSize
       THEN originalFileSize
       ELSE (estimatedRasterSize * 105) \div 100

\* calculateProjectedFileSize (lines 1282-1321); page1DataUrl enters through
\* its length only
calculateProjectedFileSize(urlLength, pageCount, originalFileSize, isTextHeavy) ==
    LET estimatedRasterSize == EstimatedRasterSize(urlLength, pageCount)
    IN IF estimatedRasterSize >= originalFileSize
       THEN originalFileSize
       ELSE \* Math.min(Math.floor(estimatedRasterSize * 1.05), originalFileSize)
            Min((estimatedRasterSize * 105) \div 100, originalFileSize)

\* lengths of the data URL of the sample page: "data:," of an empty canvas,
\* or the head followed by up to MaxQuads base64 quadruples
UrlLengths == {6} \cup (HeadLength..(HeadLength + 4 * MaxQuads))

\* original file sizes: 0, and the sizes next to every estimate and next to
\* every padded estimate
ProjectionFileSizes ==
    {0} \cup
    UNION {{EstimatedRasterSize(l, n) + d : d \in {-1, 0, 1}}
           \cup {(EstimatedRasterSize(l, n) * 105) \div 100 + d : d \in {-1, 0, 1}} :
           l \in UrlLengths, n \in 0..MaxPages}

ProjectionInit ==
    /\ api = "projection"
    /\ pc = "idle"
    /\ query = NoQuery
    /\ answer = NoConfig
    /\ file = NoFile
    /\ args = NoArgs
    /\ analysis = NoAnalysis
    /\ cfg = NoConfig
    /\ resultBytes = NoBytes
    /\ strategy = ""
    /\ passes = << >>
    /\ cur = NoPass
    /\ progress = << >>
    /\ objs = << >>
    /\ imagesToCompress = << >>
    /\ result = NoResult

\* a call calculateProjectedFileSize(page1DataUrl, pageCount, originalFileSize,
\* isTextHeavy)
ProjectSize ==
    /\ api = "projection"
    /\ pc = "idle"
    /\ \E l \in UrlLengths, n \in 0..MaxPages, size \in ProjectionFileSizes,
          th \in BOOLEAN :
           /\ query' = [fn |-> "calculateProjectedFileSize", urlLength |-> l,
                        pageCount |-> n, originalFileSize |-> size,
                        isTextHeavy |-> th]
           /\ answer' = [size |-> calculateProjectedFileSize(l, n, size, th)]
    /\ pc' = "returned"
    /\ UNCHANGED <<api, compressVars>>

ProjectionNext == ProjectSize

SpecProjection == ProjectionInit /\ [][ProjectionNext]_vars

\* C14: calculateProjectedFileSize never returns more than originalFileSize:
\* with estimate = rawBytes * pageCount + 2048 * pageCount + 5120 it returns
\* originalFileSize when estimate >= originalFileSize and
\* min(floor(estimate * 1.05), originalFileSize) otherwise, for every
\* sample-page payload length, pageCount >= 0 and originalFileSize; and the
\* isTextHeavy argument never changes the result.
C14_ProjectionClamped ==
    query.fn = "calculateProjectedFileSize"
        => LET estimate == RawBytes(query.urlLength) * query.pageCount
                           + 2048 * query.pageCount + 5120
               original == query.originalFileSize
           IN /\ answer.size <= original
              /\ estimate >= original => answer.size = original
              /\ estimate < original
                   => answer.size = Min((estimate * 105) \div 100, original)
              /\ answer.size = calculateProjectedFileSize(
                                  query.urlLength, query.pageCount, original,
                                  ~query.isTextHeavy)

\* C14 witness: a payload of 3 bytes on 2 pages gives the estimate 9222; the
\* file has 9223 bytes, the padded estimate 9683 is above that, and the call
\* returned 9223
C14_Witness ==
    /\ query.fn = "calculateProjectedFileSize"
    /\ query.urlLength = HeadLength + 4
    /\ query.pageCount = 2
    /\ query.originalFileSize = 9223
    /\ answer.size = 9223

\* ------------------------------------------------------------------------
\* analyzePDF step by step (pdfService.ts 808-832): the load, the loop over
\* the sampled pages, and the return
\* ------------------------------------------------------------------------
\* what page.getTextContent() does on a page of a classified document
ClassifierPageTexts == PageTexts \cup {[items |-> 19, readable |-> TRUE]}

\* the documents handed to analyzePDF: up to MaxDocPages pages, and a file
\* pdf.js rejects
ClassifierFiles ==
    UNION {{[size |-> MaxBytes, numPages |-> n, loads |-> TRUE, pages |-> p,
             canvas |-> TRUE, libLoads |-> TRUE, enumerates |-> TRUE,
             libSaves |-> TRUE, objects |-> << >>] :
               p \in [1..n -> ClassifierPageTexts]} :
           n \in 0..MaxDocPages}
    \cup
    {[size |-> MaxBytes, numPages |-> 0, loads |-> FALSE, pages |-> << >>,
      canvas |-> TRUE, libLoads |-> FALSE, enumerates |-> FALSE,
      libSaves |-> FALSE, objects |-> << >>]}

\* mutant of pagesToCheck: every page of the document is sampled
MutPagesToCheckAll(numPages) == numPages

\* Math.min(numPages, 3) (line 814)
pagesToCheck(numPages) == Min(numPages, 3)

\* the locals of analyzePDF: the loop index, totalTextItems, and the pages on
\* which getTextContent was called, in call order
NewAnalysis == [kind |-> "analysis", i |-> 0, totalTextItems |-> 0,
                sampled |-> << >>]

ClassifierInit ==
    /\ api = "classifier"
    /\ pc = "load"
    /\ file \in ClassifierFiles
    /\ args = NoArgs
    /\ analysis = NoAnalysis
    /\ cfg = NoConfig
    /\ resultBytes = NoBytes
    /\ strategy = ""
    /\ passes = << >>
    /\ cur = NoPass
    /\ progress = << >>
    /\ objs = << >>
    /\ imagesToCompress = << >>
    /\ result = NoResult
    /\ query = NoQuery
    /\ answer = NoConfig

\* lines 810-815: load the file with pdf.js; a throw lands in the catch
\* clause, which returns {isTextHeavy: false, pageCount: 0}
ClassifyLoad ==
    /\ api = "classifier"
    /\ pc = "load"
    /\ IF file.loads
       THEN /\ cur' = NewAnalysis
            /\ pc' = "page"
            /\ UNCHANGED analysis
       ELSE /\ analysis' = [isTextHeavy |-> FALSE, pageCount |-> 0]
            /\ pc' = "done"
            /\ UNCHANGED cur
    /\ UNCHANGED <<api, file, args, cfg, resultBytes, strategy, passes, progress,
                   objectVars, result, resolverVars>>

\* one iteration of the loop of lines 817-821: getTextContent on page i adds
\* its items to totalTextItems, or throws into the catch clause
ClassifyPage ==
    /\ api = "classifier"
    /\ pc = "page"
    /\ cur.i < pagesToCheck(file.numPages)
    /\ LET i == cur.i + 1 IN
         /\ cur' = [cur EXCEPT
                      !.i = i,
                      !.sampled = Append(@, i),
                      !.totalTextItems =
                          IF file.pages[i].readable THEN @ + file.pages[i].items
                          ELSE @]
         /\ IF file.pages[i].readable
            THEN UNCHANGED <<pc, analysis>>
            ELSE /\ analysis' = [isTextHeavy |-> FALSE, pageCount |-> 0]
                 /\ pc' = "done"
    /\ UNCHANGED <<api, file, args, cfg, resultBytes, strategy, passes, progress,
                   objectVars, result, resolverVars>>

\* lines 823-827: totalTextItems / maxPagesToCheck > 20; 0 / 0 is NaN and
\* NaN > 20 is false
ClassifyReturn ==
    /\ api = "classifier"
    /\ pc = "page"
    /\ cur.i = pagesToCheck(file.numPages)
    /\ analysis' = [isTextHeavy |-> pagesToCheck(file.numPages) > 0
                                    /\ cur.totalTextItems
                                         > 20 * pagesToCheck(file.numPages),
                    pageCount |-> file.numPages]
    /\ pc' = "done"
    /\ UNCHANGED <<api, file, args, cfg, resultBytes, strategy, passes, cur,
                   progress, objectVars, result, resolverVars>>

ClassifierNext ==
    \/ ClassifyLoad
    \/ ClassifyPage
    \/ ClassifyReturn

SpecClassifier == ClassifierInit /\ [][ClassifierNext]_vars

\* the sequence 1, 2, ..., n
RECURSIVE FirstPages(_)
FirstPages(n) == IF n = 0 THEN << >> ELSE Append(FirstPages(n - 1), n)

\* C21: when nothing throws, analyzePDF samples exactly min(numPages, 3)
\* pages, the first ones in order, and returns isTextHeavy = true iff the sum
\* of the text-item counts of the sampled pages divided by the number of
\* sampled pages exceeds 20, with pageCount = numPages; an average of exactly
\* 20 and a document with zero pages yield isTextHeavy = false.
C21_Sampling ==
    (api = "classifier" /\ pc # "load" /\ ~analysisThrows(file))
        => LET m == IF file.numPages < 3 THEN file.numPages ELSE 3
               total == SumItems(file.pages, m)
           IN /\ cur.i <= m
              /\ cur.sampled = FirstPages(cur.i)
              /\ pc = "done"
                   => /\ cur.sampled = FirstPages(m)
                      /\ analysis.pageCount = file.numPages
                      /\ analysis.isTextHeavy <=> (m > 0 /\ total > 20 * m)
                      /\ (m > 0 /\ total = 20 * m) => ~analysis.isTextHeavy
                      /\ file.numPages = 0 => ~analysis.isTextHeavy
                      /\ analysis = analyzePDF(file)

\* C21 witness: a document of four pages with 20, 20, 20 and 21 text items:
\* pages 1, 2, 3 were sampled, the average is exactly 20, and the document is
\* not text-heavy
C21_Witness ==
    /\ api = "classifier"
    /\ pc = "done"
    /\ file.numPages = 4
    /\ \A i \in 1..3 : file.pages[i] = [items |-> 20, readable |-> TRUE]
    /\ file.pages[4] = [items |-> 21, readable |-> TRUE]
    /\ cur.sampled = <<1, 2, 3>>
    /\ analysis = [isTextHeavy |-> FALSE, pageCount |-> 4]

\* C21 further case: 19, 21 and 21 items on three pages average above 20
C21_HeavyCase ==
    /\ api = "classifier"
    /\ pc = "done"
    /\ file.numPages = 3
    /\ file.pages[1].items = 19
    /\ cur.sampled = <<1, 2, 3>>
    /\ cur.totalTextItems = 61
    /\ analysis = [isTextHeavy |-> TRUE, pageCount |-> 3]

\* ------------------------------------------------------------------------
\* All entry points
\* ------------------------------------------------------------------------
Init ==
    \/ ResolverInit
    \/ ProjectionInit
    \/ ClassifierInit
    \/ AdaptiveInit
    \/ LegacyInit
    \/ SmartInit

Next ==
    \/ ResolverNext
    \/ ProjectionNext
    \/ ClassifierNext
    \/ AdaptiveNext
    \/ LegacyNext
    \/ SmartNext

Spec == Init /\ [][Next]_vars

\* C2 (as claimed): the single-pass entry points, compressPDFSmart (object
\* optimization, visual reconstruction and fallback branch) and the legacy
\* compressPDFAdaptive, return data whose length is at most file.size.
C2_SinglePassNeverGrow ==
    (api \in {"smart", "legacy"} /\ result.status = "success")
        => result.data.size <= file.size

\* the strategy labels of the engine's output contract
StrategyLabels ==
    {"Smart Object Optimization", "Visual Reconstruction", "Adaptive Fallback",
     "Adaptive Squeeze", "Aborted (Safety Lock)", "Fallback Rasterization"}

\* the strategy label of a returned result: meta.strategyUsed, or the method
\* field of compressPDFSmart
ResultLabel ==
    IF api = "smart" THEN result.method ELSE result.meta.strategyUsed

\* C13 (as claimed): every non-blocked result returned by a compress entry
\* point (multi-pass compressPDFAdaptive, legacy compressPDFAdaptive,
\* compressPDFSmart) carries one of the six strategy labels.
C13_LabelVocabulary ==
    (api \in {"adaptive", "legacy", "smart"} /\ result.status = "success")
        => ResultLabel \in StrategyLabels

\* C16 (as claimed): within one compress request the percentages passed to
\* onProgress are non-decreasing and stay within 0..100, across all sub-steps:
\* pass 1 and the escalation or squeeze pass of multi-pass compressPDFAdaptive,
\* the page loop and the final report of the legacy version, and in
\* compressPDFSmart the object pass followed by the fallback rasterization.
C16_ProgressMonotone ==
    /\ \A k \in 1..Len(progress) :
         /\ 0 <= progress[k].num
         /\ progress[k].num <= 100 * progress[k].den
    /\ \A k \in 1..(Len(progress) - 1) :
         progress[k].num * progress[k + 1].den
             <= progress[k + 1].num * progress[k].den

\* C15 (as claimed): every rasterizing builder (performCompressionPass,
\* compressPDFVisual, the page loop of the legacy compressPDFAdaptive) that
\* returned normally produced a document with exactly one page per source
\* page, in source order, each sized to the source page's viewport at scale
\* 1.0; no page is skipped or duplicated, also without a canvas context.
C15_OnePagePerSource ==
    \A k \in 1..Len(passes) :
        /\ Len(passes[k].pages) = file.numPages
        /\ \A j \in 1..Len(passes[k].pages) :
             /\ passes[k].pages[j].src = j
             /\ passes[k].pages[j].box = U

\* the rasterizing passes of the call at hand, finished or in progress
RasterPasses ==
    IF cur.kind \in {"first", "escalate", "squeeze", "legacy", "visual", "fallback"}
    THEN Append(passes, cur)
    ELSE passes

\* C25 (as claimed): compressPDFVisual and performCompressionPass render
\* every page at exactly the scale, and encode it at exactly the quality, of
\* the config the pass was called with, for every level and config.
C25_RenderAtConfigScale ==
    api \in {"adaptive", "smart"}
        => \A k \in 1..Len(RasterPasses) :
             \A j \in 1..Len(RasterPasses[k].pages) :
                 /\ RasterPasses[k].pages[j].scale = RasterPasses[k].scale
                 /\ RasterPasses[k].pages[j].quality = RasterPasses[k].quality

\* C26 (as claimed): in every rasterization path every page image is made by
\* filling the canvas white, then drawing the page, then encoding: the fill
\* is the first operation on the canvas and the encode the last.
C26_WhiteFillFirst ==
    api \in {"adaptive", "legacy", "smart"}
        => \A k \in 1..Len(RasterPasses) :
             \A j \in 1..Len(RasterPasses[k].pages) :
                 LET ops == RasterPasses[k].pages[j].ops IN
                 /\ Len(ops) >= 3
                 /\ ops[1] = "fill"
                 /\ ops[2] = "render"
                 /\ ops[Len(ops)] = "encode"

\* C27 (as claimed): in multi-pass compressPDFAdaptive with ignoreSafety =
\* false every rendering pass that is started, the first pass with a
\* caller-supplied customConfig included, uses a scale s with
\* round(s * 72) >= 90.
C27_EveryPassSafe ==
    (api = "adaptive" /\ ~args.ignoreSafety)
        => \A k \in 1..Len(StartedPasses) :
             RoundDPI(StartedPasses[k].scale) >= 90

\* C28: in multi-pass compressPDFAdaptive level 'extreme' without a
\* customConfig and without ignoreSafety starts no pass and returns only the
\* blocked result, text-heavy or not; a result labelled 'Adaptive Squeeze'
\* comes only from a call with ignoreSafety (level 'extreme', no customConfig)
\* in which pass 1 was smaller than file.size but larger than 0.8 * file.size
\* and the second pass, at 0.8 * the pass-1 scale and the pass-1 quality, was
\* strictly smaller than pass 1.
C28_ExtremeSqueeze ==
    api = "adaptive"
        => /\ (args.level = "extreme" /\ ~args.custom /\ ~args.ignoreSafety)
                => /\ Len(StartedPasses) = 0
                   /\ result.status \in {"success", "blocked"}
                          => (result.status = "blocked" /\ cfg.projectedDPI < 90)
           /\ result.meta.strategyUsed = "Adaptive Squeeze"
                => /\ args.ignoreSafety
                   /\ args.level = "extreme"
                   /\ ~args.custom
                   /\ Len(passes) = 2
                   /\ passes[1].size < file.size
                   /\ 5 * passes[1].size > 4 * file.size
                   /\ passes[2].kind = "squeeze"
                   /\ 10 * passes[2].scale = 8 * passes[1].scale
                   /\ passes[2].quality = passes[1].quality
                   /\ passes[2].size < passes[1].size

\* the case of C28: a squeeze pass was adopted on a text-heavy document
C28_Witness ==
    /\ api = "adaptive"
    /\ result.status = "success"
    /\ result.meta.strategyUsed = "Adaptive Squeeze"
    /\ args.ignoreSafety
    /\ analysis.isTextHeavy
    /\ Len(passes) = 2

\* further case of C28: 'extreme' is blocked on a text-heavy document
C28_BlockedCase ==
    /\ api = "adaptive"
    /\ args.level = "extreme"
    /\ ~args.custom
    /\ ~args.ignoreSafety
    /\ analysis.isTextHeavy
    /\ result.status = "blocked"

\* C29 (as claimed): in every result of multi-pass compressPDFAdaptive
\* meta.iterations is the number of rendering passes executed during the
\* call, results labelled 'Aborted (Safety Lock)' included.
C29_IterationsCount ==
    (api = "adaptive" /\ result.status \in {"success", "blocked"})
        => result.meta.iterations = Len(passes)

\* the pass whose bytes a result of compressPDFAdaptive returns
ReturnedPass ==
    IF result.data.src = "pass2" THEN passes[2] ELSE passes[1]

\* C30 (as claimed): in every result of the multi-pass and of the legacy
\* compressPDFAdaptive meta.compressedSize is the size of data (0 when
\* blocked, file.size when aborted); on a success that is not aborted the
\* data are the bytes of an executed pass and the meta describe that pass:
\* meta.projectedDPI is round(72 * its scale), and the multi-pass
\* meta.effectiveScale and meta.effectiveQuality are its scale and quality
\* rounded to two decimals (the legacy meta has neither field).
C30_MetaDescribesData ==
    (api \in {"adaptive", "legacy"} /\ result.status \in {"success", "blocked"})
        => /\ result.meta.compressedSize = result.data.size
           /\ result.status = "blocked"
                => (result.data = EmptyBytes /\ result.meta.compressedSize = 0)
           /\ result.meta.strategyUsed = "Aborted (Safety Lock)"
                => (result.data = OriginalBytes(file)
                    /\ result.meta.compressedSize = file.size)
           /\ (result.status = "success"
               /\ result.meta.strategyUsed # "Aborted (Safety Lock)")
                => /\ result.data.src \in {"pass1", "pass2"}
                   /\ Len(passes) >= (IF result.data.src = "pass2" THEN 2 ELSE 1)
                   /\ result.data.size = ReturnedPass.size
                   /\ result.meta.projectedDPI = RoundDPI(ReturnedPass.scale)
                   /\ api = "adaptive"
                        => /\ result.meta.effectiveScale = ToFixed2(ReturnedPass.scale)
                           /\ result.meta.effectiveQuality = ToFixed2(ReturnedPass.quality)

\* the scale pass 1 runs or ran at
FirstPassScale ==
    IF Len(passes) > 0 THEN passes[1].scale ELSE cur.scale

\* C10: when analyzePDF fails (text extraction throws on a sampled page, or, in
\* the legacy entry point that classifies before it loads, the document does
\* not load), it has returned {isTextHeavy: false, pageCount: 0} and the
\* compress call went on with the config of a document that is not text-heavy:
\* the multi-pass call passed or was stopped by the safety check on that
\* config's DPI and runs pass 1 at that config's scale and quality; a call
\* throws only for its own load of the document or a missing canvas context.
C10_ClassificationNotFatal ==
    /\ (api = "adaptive" /\ pc \notin {"load", "resolve"}
          /\ file.loads /\ analysisThrows(file))
         => /\ analysis = [isTextHeavy |-> FALSE, pageCount |-> 0]
            /\ result.status = "threw" => ~file.canvas
            /\ ~args.custom
                 => /\ cfg.projectedDPI = getAdaptiveConfig(args.level, FALSE).projectedDPI
                    /\ result.status # "blocked"
                         => /\ FirstPassScale = getAdaptiveConfig(args.level, FALSE).scale
                            /\ cur.kind = "first"
                                 => cur.quality = getAdaptiveConfig(args.level, FALSE).quality
    /\ (api = "legacy" /\ pc # "resolve" /\ analysisThrows(file))
         => /\ analysis = [isTextHeavy |-> FALSE, pageCount |-> 0]
            /\ result.status = "threw" => ~file.loads
            /\ ~args.custom => cfg = legacyGetAdaptiveConfig(args.level, FALSE)

\* C10 witness: text extraction threw on the second page, and the call still
\* returned a compressed document from pass 1 at the preset of a document that
\* is not text-heavy
C10_Witness ==
    /\ api = "adaptive"
    /\ file.numPages = 2
    /\ file.pages[1].readable
    /\ ~file.pages[2].readable
    /\ ~args.custom
    /\ args.level = "less"
    /\ result.status = "success"
    /\ result.data.src = "pass1"
    /\ result.meta.effectiveScale = 20000

====
